---------------------------- MODULE Spec2Model ----------------------------
(***************************************************************************)
(* Model of the stereoscopic frame-conversion engine of vr-3d-player:      *)
(*   - useSBSConverter        (src/hooks/use-video-picker.ts, l.103-345)   *)
(*   - useVideoFrameProcessor (src/hooks/use-video-frame-processor.ts)     *)
(* JavaScript runs one task at a time; an async function runs until its    *)
(* next await.  Every action below is one such uninterrupted stretch; at   *)
(* every await any other operation of the hook may run (a timer, a caller  *)
(* that goes on after the call returned its promise, an onProgress         *)
(* callback, the continuation of another async call).                      *)
(* Strings are sequences of string tokens, numbers are integers or exact   *)
(* fractions [n, d] in lowest terms.                                       *)
(***************************************************************************)
EXTENDS Integers, Sequences, FiniteSets, TLC

(***************************************************************************)
(* Bounds of the model                                                     *)
(***************************************************************************)
\* how many convertToSBS calls a behaviour makes
MaxConversions == 2
\* how many processBatch calls a behaviour makes
MaxBatches == 2
\* the frame indices 0..MaxFreshIndex are requested in the cache scenario
MaxFreshIndex == 101
\* how far outside its valid range a validated pupil distance lies
MaxMargin == 10
\* the longest planned video, in half seconds
MaxHalfSeconds == 1024
\* the largest pupil distance (of either sign) a shift is computed for
MaxShiftPupil == 120
\* the widest screen, in mm, a pupil distance is computed for
MaxScreenWidth == 300
\* the largest frame, in pixels, that is converted to side-by-side
MaxFrameWidth == 3
MaxFrameHeight == 2
\* the convertToSBS calls, and the processBatch calls, of a behaviour under
\* fair scheduling
MaxLiveCalls == 1

(***************************************************************************)
(* Program constants                                                       *)
(***************************************************************************)
\* for (let i = 0; i <= 100; i += 10)
ProgressEnd == 100
ProgressStep == 10
\* Math.max(-10, Math.min(10, baseShift))
ShiftLimit == 10

\* if (frameBufferRef.current.size > 100)
BufferLimit == 100
\* timestamp: frameIndex * (1000 / 30)
MsPerSecond == 1000
AssumedFps == 30

\* null of the source
Null == <<"null">>
\* '處理已取消'
ProcessingCancelled == <<"processing cancelled">>
\* the message of the RangeError of new Uint8Array(negative length)
InvalidArrayLength == <<"Invalid typed array length">>
\* '轉換已取消'
ConversionCancelled == <<"conversion cancelled">>
\* the message of an Error thrown by the caller's onProgress
CallbackFailed == <<"onProgress failed">>

(***************************************************************************)
(* Inputs                                                                  *)
(***************************************************************************)
\* the convertToSBS requests a behaviour draws from: a URI without a query
\* part at the default options, and a URI with one at a pupil distance
\* whose shift is limited
ConversionRequests ==
    { [videoUri |-> <<"file:a.mp4">>,
       options |-> [enabled |-> TRUE, pupilDistance |-> 65,
                    convergenceDistance |-> 1000]],
      [videoUri |-> <<"http://b", "?", "t=1">>,
       options |-> [enabled |-> TRUE, pupilDistance |-> 100,
                    convergenceDistance |-> 500]] }

\* the FrameProcessorOptions a behaviour draws from; a negative width makes
\* new Uint8Array(...) throw in simulateFrameExtraction
RgbaOptions == [width |-> 2, height |-> 1, format |-> "rgba"]
BadOptions == [width |-> -1, height |-> 1, format |-> "rgba"]
FrameVideo == <<"file:a.mp4">>

\* the processBatch requests a behaviour draws from
BatchRequests ==
    { [startFrame |-> 0, endFrame |-> 3, options |-> RgbaOptions],
      [startFrame |-> 0, endFrame |-> 2, options |-> BadOptions],
      [startFrame |-> 2, endFrame |-> 2, options |-> RgbaOptions] }

(***************************************************************************)
(* Numbers and their text                                                  *)
(***************************************************************************)
Abs(n) == IF n < 0 THEN -n ELSE n

RECURSIVE Gcd(_, _)
Gcd(a, b) == IF b = 0 THEN a ELSE Gcd(b, a % b)

\* the fraction n/d (d # 0) in lowest terms with a positive denominator
Frac(n, d) ==
    LET g == Gcd(Abs(n), Abs(d))
        s == IF d < 0 THEN -1 ELSE 1
    IN  [n |-> s * (n \div g), d |-> Abs(d) \div g]

FracLess(p, q) == p.n * q.d < q.n * p.d

FracMin(p, q) == IF FracLess(q, p) THEN q ELSE p
FracMax(p, q) == IF FracLess(p, q) THEN q ELSE p

DigitChar(k) == CASE k = 0 -> "0" [] k = 1 -> "1" [] k = 2 -> "2" [] k = 3 -> "3"
                  [] k = 4 -> "4" [] k = 5 -> "5" [] k = 6 -> "6" [] k = 7 -> "7"
                  [] k = 8 -> "8" [] k = 9 -> "9"

RECURSIVE NatToStr(_)
NatToStr(n) == IF n < 10 THEN <<DigitChar(n)>>
               ELSE NatToStr(n \div 10) \o <<DigitChar(n % 10)>>

\* `${n}` of an integer
NumToStr(n) == IF n < 0 THEN <<"-">> \o NatToStr(-n) ELSE NatToStr(n)

\* `${x}` of a fraction: the integer's digits, or numerator "/" denominator
\* (JavaScript prints the shortest decimal that reads back as the same
\* number; both texts tell any two different numbers apart)
FracToStr(p) == IF p.d = 1 THEN NumToStr(p.n)
                ELSE NumToStr(p.n) \o <<"/">> \o NatToStr(p.d)

\* videoUri.includes('?')
Includes(s, ch) == \E k \in 1..Len(s) : s[k] = ch

(***************************************************************************)
(* useSBSConverter: pure helpers                                           *)
(***************************************************************************)
\* `${videoUri}_${options.pupilDistance}_${options.convergenceDistance}`
cacheKey(videoUri, options) ==
    videoUri \o <<"_">> \o NumToStr(options.pupilDistance)
             \o <<"_">> \o NumToStr(options.convergenceDistance)

\* a slip: the shift is not limited
calculateDisparityShiftUnlimited(pupilDistance, convergenceDistance) ==
    IF convergenceDistance = 0 THEN [n |-> 0, d |-> 0]
    ELSE Frac(pupilDistance * 100, convergenceDistance)

\* (pupilDistance / convergenceDistance) * 100 limited to [-10, 10];
\* a zero convergenceDistance divides to +-Infinity (limited) or NaN
calculateDisparityShift(pupilDistance, convergenceDistance) ==
    IF convergenceDistance = 0
    THEN IF pupilDistance > 0 THEN Frac(ShiftLimit, 1)
         ELSE IF pupilDistance < 0 THEN Frac(-ShiftLimit, 1)
         ELSE [n |-> 0, d |-> 0]
    ELSE LET baseShift == Frac(pupilDistance * 100, convergenceDistance)
         IN  FracMax(Frac(-ShiftLimit, 1), FracMin(Frac(ShiftLimit, 1), baseShift))

\* `${videoUri}${separator}sbs=true&shift=${disparityShift}`
generateSBSUri(videoUri, disparityShift) ==
    LET separator == IF Includes(videoUri, "?") THEN "&" ELSE "?"
    IN  videoUri \o <<separator, "sbs=true&shift=">>
                 \o (IF disparityShift.d = 0 THEN <<"NaN">>
                     ELSE FracToStr(disparityShift))

(***************************************************************************)
(* State                                                                   *)
(***************************************************************************)
VARIABLES
    conversionCache,   \* Map<string,string>: function cacheKey -> converted URI
    converterState,    \* SBSConverterState
    conversionRef,     \* conversionRef.current: 0 (null) or a controller id
    convAborted,       \* ids of the AbortControllers whose signal is aborted
    runs,              \* the convertToSBS calls made so far, in call order
    completedKeys      \* history: the (videoUri, options) converted and
                       \* cached since the last clearCache

VARIABLES
    frameBuffer,       \* frameBufferRef.current: the Map<number, ProcessedFrame>
                       \* as its entries in the Map's (insertion) order
    processorState,    \* FrameProcessorState
    processorRef,      \* processorRef.current: 0 (null) or a controller id
    procAborted,       \* ids of the AbortControllers whose signal is aborted
    batches,           \* the processBatch calls made so far, in call order
    extracts,          \* the direct extractFrame calls in flight
    lastExtract,       \* the last direct extractFrame call that returned
    insertLog          \* history: the indices inserted into the frame buffer
                       \* since it was last cleared, in order

sessionVars == <<conversionCache, converterState, conversionRef, convAborted,
                 runs, completedKeys>>

processorVars == <<frameBuffer, processorState, processorRef, procAborted,
                   batches, extracts, lastExtract, insertLog>>

VARIABLES
    utilityCall        \* a call of a utility function: the function, its
                       \* arguments, whether it has returned, and what

utilityVars == <<utilityCall>>

VARIABLES
    peer               \* a second instance of each hook (another component
                       \* of the same process): its own useState and useRef
                       \* values; the module's conversionCache is the one above

peerVars == <<peer>>

vars == <<conversionCache, converterState, conversionRef, convAborted, runs,
          completedKeys, frameBuffer, processorState, processorRef,
          procAborted, batches, extracts, lastExtract, insertLog, utilityCall,
          peer>>

(***************************************************************************)
(* useSBSConverter                                                         *)
(***************************************************************************)
\* useState<SBSConverterState>({...}), useRef(null), new Map()
SessionInit ==
    /\ conversionCache = <<>>
    /\ converterState = [isConverting |-> FALSE, progress |-> 0,
                         error |-> Null, convertedUri |-> Null]
    /\ conversionRef = 0
    /\ convAborted = {}
    /\ runs = <<>>
    /\ completedKeys = {}

\* a run that has not returned: it waits in `await new Promise(setTimeout)`
InFlight(r) == r.pc = "delay"

\* conversionRef.current?.signal.aborted
SignalAborted == conversionRef # 0 /\ conversionRef \in convAborted

\* a slip: the controller is created once and kept for later runs
NewControllerKept == IF conversionRef # 0 THEN conversionRef ELSE Len(runs) + 1

\* conversionRef.current = new AbortController(): a controller of its own
NewController == Len(runs) + 1

\* conversionCache.has(cacheKey)
CacheHas(key) == key \in DOMAIN conversionCache

\* a slip: the result is never stored
CacheSetSkipped(cache, key, uri) == cache

\* conversionCache.set(cacheKey, convertedUri)
CacheSet(cache, key, uri) ==
    [k \in DOMAIN cache \cup {key} |-> IF k = key THEN uri ELSE cache[k]]

\* a slip: the handler sets the state and throws the error again
convertCatchRethrows(st, message) ==
    [state |-> [st EXCEPT !.isConverting = FALSE, !.error = message,
                          !.progress = 0],
     pc |-> "rejected", result |-> Null]

\* catch (error) of convertToSBS (l.215-224): the error's message goes to the
\* state and the call returns null
convertCatch(st, message) ==
    [state |-> [st EXCEPT !.isConverting = FALSE, !.error = message,
                          !.progress = 0],
     pc |-> "returned", result |-> Null]

\* the call of convertToSBS up to its first await (or to its return on a
\* cache hit)
ConvertToSBS(videoUri, options) ==
    LET key == cacheKey(videoUri, options)
        call == [videoUri |-> videoUri, options |-> options, ctrl |-> 0,
                 i |-> 0, pc |-> "returned", result |-> Null,
                 viaCache |-> FALSE, inserted |-> FALSE,
                 cancelSeen |-> FALSE, superseded |-> FALSE,
                 thrown |-> Null,
                 wasCompleted |-> [videoUri |-> videoUri, options |-> options]
                                     \in completedKeys]
    IN
    /\ Len(runs) < MaxConversions
    /\ IF CacheHas(key)
       THEN /\ converterState' = [converterState EXCEPT
                    !.convertedUri = conversionCache[key],
                    !.isConverting = FALSE,
                    !.progress = ProgressEnd]
            /\ runs' = Append(runs, [call EXCEPT !.viaCache = TRUE,
                                        !.result = conversionCache[key]])
            /\ UNCHANGED <<conversionRef>>
       ELSE \* setState(isConverting, progress 0, error null); the new
            \* controller; i = 0: the fresh signal is not aborted;
            \* setState(progress: 0); await
            /\ converterState' = [converterState EXCEPT
                    !.isConverting = TRUE, !.progress = 0, !.error = Null]
            /\ conversionRef' = NewController
            /\ runs' = Append(
                   [k \in 1..Len(runs) |->
                       IF InFlight(runs[k])
                       THEN [runs[k] EXCEPT !.superseded = TRUE] ELSE runs[k]],
                   [call EXCEPT !.ctrl = NewController, !.pc = "delay"])
    /\ UNCHANGED <<conversionCache, convAborted, completedKeys>>
    /\ UNCHANGED processorVars
    /\ UNCHANGED utilityVars
    /\ UNCHANGED peerVars

\* the timer of run r fires: i += 10, then the loop test, the abort check
\* and the next progress step, or the end of the loop and the result
ConversionStep(r) ==
    LET run == runs[r]
        i == run.i + ProgressStep
        key == cacheKey(run.videoUri, run.options)
    IN
    /\ InFlight(run)
    /\ IF i <= ProgressEnd
       THEN IF SignalAborted
            THEN \* throw new Error('轉換已取消')
                 LET caught == convertCatch(converterState,
                                            ConversionCancelled)
                 IN  /\ converterState' = caught.state
                     /\ runs' = [runs EXCEPT ![r].pc = caught.pc,
                                              ![r].result = caught.result,
                                              ![r].thrown = ConversionCancelled]
                 /\ UNCHANGED <<conversionCache, completedKeys>>
            ELSE /\ converterState' = [converterState EXCEPT !.progress = i]
                 /\ runs' = [runs EXCEPT ![r].i = i]
                 /\ UNCHANGED <<conversionCache, completedKeys>>
       ELSE LET disparityShift ==
                    calculateDisparityShift(run.options.pupilDistance,
                                            run.options.convergenceDistance)
                convertedUri == generateSBSUri(run.videoUri, disparityShift)
            IN  /\ conversionCache' = CacheSet(conversionCache, key, convertedUri)
                /\ converterState' = [converterState EXCEPT
                        !.isConverting = FALSE, !.progress = ProgressEnd,
                        !.convertedUri = convertedUri, !.error = Null]
                /\ runs' = [runs EXCEPT ![r].pc = "returned",
                                         ![r].result = convertedUri,
                                         ![r].inserted = TRUE]
                /\ completedKeys' = completedKeys \cup
                       {[videoUri |-> run.videoUri, options |-> run.options]}
    /\ UNCHANGED <<conversionRef, convAborted>>
    /\ UNCHANGED processorVars
    /\ UNCHANGED utilityVars
    /\ UNCHANGED peerVars

\* cancelConversion
CancelConversion ==
    /\ convAborted' = IF conversionRef # 0
                      THEN convAborted \cup {conversionRef} ELSE convAborted
    /\ converterState' = [converterState EXCEPT
            !.isConverting = FALSE, !.progress = 0,
            !.error = ConversionCancelled]
    /\ runs' = [k \in 1..Len(runs) |->
                   IF InFlight(runs[k])
                   THEN [runs[k] EXCEPT !.cancelSeen = TRUE] ELSE runs[k]]
    /\ UNCHANGED <<conversionCache, conversionRef, completedKeys>>
    /\ UNCHANGED processorVars
    /\ UNCHANGED utilityVars
    /\ UNCHANGED peerVars

\* a slip: clearCache also cancels the conversion
ClearCacheCancelling ==
    /\ conversionCache' = <<>>
    /\ convAborted' = IF conversionRef # 0
                      THEN convAborted \cup {conversionRef} ELSE convAborted
    /\ converterState' = [converterState EXCEPT
            !.convertedUri = Null, !.isConverting = FALSE, !.progress = 0,
            !.error = ConversionCancelled]
    /\ completedKeys' = {}
    /\ UNCHANGED <<conversionRef, runs>>
    /\ UNCHANGED processorVars
    /\ UNCHANGED utilityVars
    /\ UNCHANGED peerVars

\* clearCache
ClearCache ==
    /\ conversionCache' = <<>>
    /\ converterState' = [converterState EXCEPT !.convertedUri = Null]
    /\ completedKeys' = {}
    /\ UNCHANGED <<conversionRef, convAborted, runs>>
    /\ UNCHANGED processorVars
    /\ UNCHANGED utilityVars
    /\ UNCHANGED peerVars

(***************************************************************************)
(* useVideoFrameProcessor                                                  *)
(***************************************************************************)
\* useState<FrameProcessorState>({...}), useRef(null), useRef(new Map())
ProcessorInit ==
    /\ frameBuffer = <<>>
    /\ processorState = [isProcessing |-> FALSE, currentFrame |-> 0,
                         totalFrames |-> 0, progress |-> Frac(0, 1),
                         error |-> Null]
    /\ processorRef = 0
    /\ procAborted = {}
    /\ batches = <<>>
    /\ extracts = <<>>
    /\ lastExtract = <<>>
    /\ insertLog = <<>>

\* frameBufferRef.current.keys()
BufferKeys(buf) == {buf[k].key : k \in 1..Len(buf)}

\* frameBufferRef.current.has(frameIndex)
BufferHas(buf, frameIndex) == frameIndex \in BufferKeys(buf)

\* frameBufferRef.current.get(frameIndex)
BufferGet(buf, frameIndex) ==
    buf[CHOOSE k \in 1..Len(buf) : buf[k].key = frameIndex].frame

\* frameBufferRef.current.set(frameIndex, frame): a key already present keeps
\* its place in the Map's order, a new key goes last
BufferSet(buf, frameIndex, frame) ==
    IF BufferHas(buf, frameIndex)
    THEN [k \in 1..Len(buf) |->
            IF buf[k].key = frameIndex
            THEN [key |-> frameIndex, frame |-> frame] ELSE buf[k]]
    ELSE Append(buf, [key |-> frameIndex, frame |-> frame])

\* a slip: the newest entry is deleted instead of the first key
LimitBufferNewest(buf) ==
    IF Len(buf) > BufferLimit THEN SubSeq(buf, 1, Len(buf) - 1) ELSE buf

\* if (size > 100) delete(keys().next().value)
LimitBuffer(buf) == IF Len(buf) > BufferLimit THEN Tail(buf) ELSE buf

\* pixelCount * bytesPerPixel of simulateFrameExtraction
FrameDataLength(options) ==
    (options.width * options.height)
        * (IF options.format = "rgba" THEN 4 ELSE 3)

\* new Uint8Array(length) throws a RangeError for a negative length
SimulationThrows(options) == FrameDataLength(options) < 0

\* the frame simulateFrameExtraction returns; its random bytes are modelled
\* by their count and by the request they were made for
simulateFrameExtraction(videoUri, frameIndex, options) ==
    [data |-> [length |-> FrameDataLength(options), videoUri |-> videoUri,
               frameIndex |-> frameIndex, format |-> options.format],
     width |-> options.width,
     height |-> options.height,
     timestamp |-> Frac(frameIndex * MsPerSecond, AssumedFps)]

\* extractFrame up to its await: a cache hit returns, a miss sets the state
\* and waits for simulateFrameExtraction
ExtractBegin(buf, st, frameIndex) ==
    IF BufferHas(buf, frameIndex)
    THEN [state |-> st, pc |-> "resolved", ret |-> <<BufferGet(buf, frameIndex)>>]
    ELSE [state |-> [st EXCEPT !.isProcessing = TRUE,
                               !.currentFrame = frameIndex],
          pc |-> "source", ret |-> <<>>]

\* a slip: the handler records the message and leaves isProcessing set
extractCatchKeepsProcessing(st, message) ==
    [state |-> [st EXCEPT !.error = message], pc |-> "returned"]

\* catch (error) of extractFrame (l.91-99): the error's message goes to the
\* state and the call returns null
extractCatch(st, message) ==
    [state |-> [st EXCEPT !.isProcessing = FALSE, !.error = message],
     pc |-> "returned"]

\* extractFrame after its await: the frame is cached and the cache limited,
\* or the error of the frame source is caught
ExtractEnd(buf, st, videoUri, frameIndex, options) ==
    IF SimulationThrows(options)
    THEN LET caught == extractCatch(st, InvalidArrayLength)
         IN  [buffer |-> buf, state |-> caught.state,
              ret |-> <<>>, threw |-> TRUE,
              rejected |-> caught.pc = "rejected", log |-> <<>>]
    ELSE LET frame == simulateFrameExtraction(videoUri, frameIndex, options)
         IN  [buffer |-> LimitBuffer(BufferSet(buf, frameIndex, frame)),
              state |-> [st EXCEPT !.isProcessing = FALSE],
              ret |-> <<frame>>, threw |-> FALSE, rejected |-> FALSE,
              log |-> IF BufferHas(buf, frameIndex) THEN <<>>
                      ELSE <<frameIndex>>]

\* a slip: the handler sets the state and throws the error again
batchCatchRethrows(st, message) ==
    [state |-> [st EXCEPT !.error = message], pc |-> "rejected"]

\* catch (error) of processBatch (l.228-235): the error's message goes to the
\* state and the call returns the frames it has
batchCatch(st, message) ==
    [state |-> [st EXCEPT !.error = message], pc |-> "returned"]

\* a batch that has not returned
BatchInFlight(b) == b.pc # "returned"

\* processorRef.current?.signal.aborted
ProcSignalAborted == processorRef # 0 /\ processorRef \in procAborted

\* a slip: the progress counts the frames before the current one
BatchProgressBefore(i, startFrame, endFrame) ==
    LET totalFrames == endFrame - startFrame
    IN  Frac((i - startFrame) * 100,
             IF totalFrames = 0 THEN 1 ELSE totalFrames)

\* ((i - startFrame + 1) / (totalFrames || 1)) * 100, as an exact fraction
\* (the source computes it in floating point)
BatchProgress(i, startFrame, endFrame) ==
    LET totalFrames == endFrame - startFrame
    IN  Frac((i - startFrame + 1) * 100,
             IF totalFrames = 0 THEN 1 ELSE totalFrames)

\* the call of processBatch up to its first await, or to its return for an
\* empty range
ProcessBatch(videoUri, startFrame, endFrame, options) ==
    LET ctrl == Len(batches) + 1
        call == [videoUri |-> videoUri, startFrame |-> startFrame,
                 endFrame |-> endFrame, options |-> options, ctrl |-> ctrl,
                 i |-> startFrame, pc |-> "returned", ret |-> <<>>,
                 frames |-> <<>>, failed |-> {}, cancelSeen |-> FALSE,
                 thrown |-> Null]
        ex == ExtractBegin(frameBuffer, processorState, startFrame)
    IN
    /\ Len(batches) < MaxBatches
    /\ processorRef' = ctrl
    /\ IF startFrame < endFrame
       THEN /\ processorState' = ex.state
            /\ batches' = Append(batches, [call EXCEPT !.pc = ex.pc,
                                                       !.ret = ex.ret])
       ELSE /\ batches' = Append(batches, call)
            /\ UNCHANGED processorState
    /\ UNCHANGED <<frameBuffer, procAborted, extracts, lastExtract, insertLog>>
    /\ UNCHANGED sessionVars
    /\ UNCHANGED utilityVars
    /\ UNCHANGED peerVars

\* the frame source of batch b answers: extractFrame runs to its return
BatchSourceDone(b) ==
    LET batch == batches[b]
        ex == ExtractEnd(frameBuffer, processorState, batch.videoUri,
                         batch.i, batch.options)
    IN
    /\ batch.pc = "source"
    /\ frameBuffer' = ex.buffer
    /\ insertLog' = insertLog \o ex.log
    /\ IF ex.rejected
       THEN \* `await extractFrame` throws what extractFrame threw
            LET caught == batchCatch(ex.state, InvalidArrayLength)
            IN  /\ processorState' = caught.state
                /\ batches' = [batches EXCEPT
                      ![b].pc = caught.pc, ![b].ret = <<>>,
                      ![b].failed = batch.failed \cup {batch.i},
                      ![b].thrown = InvalidArrayLength]
       ELSE /\ processorState' = ex.state
            /\ batches' = [batches EXCEPT
                  ![b].pc = "resolved", ![b].ret = ex.ret,
                  ![b].failed = IF ex.threw THEN batch.failed \cup {batch.i}
                                ELSE batch.failed]
    /\ UNCHANGED <<processorRef, procAborted, extracts, lastExtract>>
    /\ UNCHANGED sessionVars
    /\ UNCHANGED utilityVars
    /\ UNCHANGED peerVars

\* processBatch resumes after `await extractFrame`: the frame is kept, the
\* progress reported (setState and onProgress, which the caller supplies and
\* which may throw), and the next iteration runs to its await, to the
\* cancellation error or to the end of the range
BatchResume(b, onProgressThrows) ==
    LET batch == batches[b]
        frames == batch.frames \o batch.ret
        progress == BatchProgress(batch.i, batch.startFrame, batch.endFrame)
        reported == [processorState EXCEPT !.progress = progress,
                                           !.currentFrame = batch.i]
        i == batch.i + 1
        ex == ExtractBegin(frameBuffer, reported, i)
    IN
    /\ batch.pc = "resolved"
    /\ IF onProgressThrows
       THEN LET caught == batchCatch(reported, CallbackFailed)
            IN  /\ processorState' = caught.state
                /\ batches' = [batches EXCEPT ![b].pc = caught.pc,
                                  ![b].frames = frames, ![b].ret = <<>>,
                                  ![b].thrown = CallbackFailed]
       ELSE IF i >= batch.endFrame
            THEN /\ processorState' = reported
                 /\ batches' = [batches EXCEPT ![b].pc = "returned",
                                   ![b].frames = frames, ![b].ret = <<>>]
            ELSE IF ProcSignalAborted
                 THEN \* throw new Error('處理已取消')
                      LET caught == batchCatch(reported, ProcessingCancelled)
                      IN  /\ processorState' = caught.state
                          /\ batches' = [batches EXCEPT
                                ![b].pc = caught.pc, ![b].frames = frames,
                                ![b].ret = <<>>,
                                ![b].thrown = ProcessingCancelled]
                 ELSE /\ processorState' = ex.state
                      /\ batches' = [batches EXCEPT
                            ![b].pc = ex.pc, ![b].frames = frames,
                            ![b].ret = ex.ret, ![b].i = i]
    /\ UNCHANGED <<frameBuffer, processorRef, procAborted, extracts,
                   lastExtract, insertLog>>
    /\ UNCHANGED sessionVars
    /\ UNCHANGED utilityVars
    /\ UNCHANGED peerVars

\* a direct call of extractFrame up to its await, or to its return on a hit
ExtractFrame(videoUri, frameIndex, options) ==
    LET ex == ExtractBegin(frameBuffer, processorState, frameIndex)
        call == [videoUri |-> videoUri, frameIndex |-> frameIndex,
                 options |-> options]
    IN
    /\ processorState' = ex.state
    /\ IF ex.pc = "resolved"
       THEN /\ lastExtract' = <<[call |-> call, ret |-> ex.ret, hit |-> TRUE,
                                 threw |-> FALSE, rejected |-> FALSE]>>
            /\ UNCHANGED extracts
       ELSE /\ extracts' = Append(extracts, call)
            /\ UNCHANGED lastExtract
    /\ UNCHANGED <<frameBuffer, processorRef, procAborted, batches, insertLog>>
    /\ UNCHANGED sessionVars
    /\ UNCHANGED utilityVars
    /\ UNCHANGED peerVars

\* the frame source of the direct call e answers
ExtractSourceDone(e) ==
    LET call == extracts[e]
        ex == ExtractEnd(frameBuffer, processorState, call.videoUri,
                         call.frameIndex, call.options)
    IN
    /\ frameBuffer' = ex.buffer
    /\ processorState' = ex.state
    /\ insertLog' = insertLog \o ex.log
    /\ lastExtract' = <<[call |-> call, ret |-> ex.ret, hit |-> FALSE,
                          threw |-> ex.threw, rejected |-> ex.rejected]>>
    /\ extracts' = [k \in 1..(Len(extracts) - 1) |->
                       IF k < e THEN extracts[k] ELSE extracts[k + 1]]
    /\ UNCHANGED <<processorRef, procAborted, batches>>
    /\ UNCHANGED sessionVars
    /\ UNCHANGED utilityVars
    /\ UNCHANGED peerVars

\* cancelProcessing
CancelProcessing ==
    /\ procAborted' = IF processorRef # 0
                      THEN procAborted \cup {processorRef} ELSE procAborted
    /\ processorState' = [processorState EXCEPT
            !.isProcessing = FALSE, !.error = ProcessingCancelled]
    /\ batches' = [k \in 1..Len(batches) |->
                      IF BatchInFlight(batches[k])
                      THEN [batches[k] EXCEPT !.cancelSeen = TRUE]
                      ELSE batches[k]]
    /\ UNCHANGED <<frameBuffer, processorRef, extracts, lastExtract, insertLog>>
    /\ UNCHANGED sessionVars
    /\ UNCHANGED utilityVars
    /\ UNCHANGED peerVars

\* clearFrameBuffer
ClearFrameBuffer ==
    /\ frameBuffer' = <<>>
    /\ processorState' = [processorState EXCEPT
            !.currentFrame = 0, !.totalFrames = 0]
    /\ insertLog' = <<>>
    /\ UNCHANGED <<processorRef, procAborted, batches, extracts, lastExtract>>
    /\ UNCHANGED sessionVars
    /\ UNCHANGED utilityVars
    /\ UNCHANGED peerVars

(***************************************************************************)
(* A second instance of each hook                                          *)
(***************************************************************************)
\* useSBSConverter() and useVideoFrameProcessor() called by a second
\* component: useState and useRef give it a state, a conversionRef and a
\* frameBufferRef of its own; conversionCache is a constant of the module
PeerInit ==
    peer = [converterState |-> [isConverting |-> FALSE, progress |-> 0,
                                error |-> Null, convertedUri |-> Null],
            run |-> <<>>,
            lastConvert |-> <<>>,
            insertedKeys |-> {},
            frameBuffer |-> <<>>,
            processorState |-> [isProcessing |-> FALSE, currentFrame |-> 0,
                                totalFrames |-> 0, progress |-> Frac(0, 1),
                                error |-> Null],
            extract |-> <<>>,
            lastExtract |-> <<>>]

\* a slip: the second instance looks its key up in a cache of its own
PeerCacheOwn == [key \in peer.insertedKeys |-> conversionCache[key]]

\* the conversionCache the second instance's convertToSBS reads (l.129)
PeerCache == conversionCache

\* convertToSBS of the second instance up to its first await, or to its
\* return on a cache hit; its calls are made one after the other
PeerConvertToSBS(videoUri, options) ==
    LET key == cacheKey(videoUri, options)
        call == [videoUri |-> videoUri, options |-> options]
    IN
    /\ peer.run = <<>>
    /\ IF key \in DOMAIN PeerCache
       THEN peer' = [peer EXCEPT
                !.converterState = [@ EXCEPT
                    !.convertedUri = PeerCache[key],
                    !.isConverting = FALSE,
                    !.progress = ProgressEnd],
                !.lastConvert = <<[call |-> call, result |-> PeerCache[key],
                                   viaCache |-> TRUE]>>]
       ELSE peer' = [peer EXCEPT
                !.converterState = [@ EXCEPT
                    !.isConverting = TRUE, !.progress = 0, !.error = Null],
                !.run = <<[call |-> call, i |-> 0]>>]
    /\ UNCHANGED sessionVars
    /\ UNCHANGED processorVars
    /\ UNCHANGED utilityVars

\* the timer of the second instance's run fires; nothing aborts the signal
\* of its controller, for its cancelConversion is not called
PeerConversionStep ==
    LET run == peer.run[1]
        i == run.i + ProgressStep
        key == cacheKey(run.call.videoUri, run.call.options)
        disparityShift ==
            calculateDisparityShift(run.call.options.pupilDistance,
                                    run.call.options.convergenceDistance)
        convertedUri == generateSBSUri(run.call.videoUri, disparityShift)
    IN
    /\ peer.run # <<>>
    /\ IF i <= ProgressEnd
       THEN /\ peer' = [peer EXCEPT !.converterState.progress = i,
                                    !.run[1].i = i]
            /\ UNCHANGED <<conversionCache, completedKeys>>
       ELSE /\ conversionCache' = CacheSet(conversionCache, key, convertedUri)
            /\ completedKeys' = completedKeys \cup {run.call}
            /\ peer' = [peer EXCEPT
                  !.converterState = [@ EXCEPT
                      !.isConverting = FALSE, !.progress = ProgressEnd,
                      !.convertedUri = convertedUri, !.error = Null],
                  !.run = <<>>,
                  !.insertedKeys = @ \cup {key},
                  !.lastConvert = <<[call |-> run.call,
                                     result |-> convertedUri,
                                     viaCache |-> FALSE]>>]
    /\ UNCHANGED <<converterState, conversionRef, convAborted, runs>>
    /\ UNCHANGED processorVars
    /\ UNCHANGED utilityVars

\* the frameBufferRef.current the second instance's extractFrame reads (l.44)
PeerBuffer == peer.frameBuffer

\* extractFrame of the second instance up to its await, or to its return on
\* a hit; its calls are made one after the other
PeerExtractFrame(videoUri, frameIndex, options) ==
    LET ex == ExtractBegin(PeerBuffer, peer.processorState, frameIndex)
        call == [videoUri |-> videoUri, frameIndex |-> frameIndex,
                 options |-> options]
    IN
    /\ peer.extract = <<>>
    /\ IF ex.pc = "resolved"
       THEN peer' = [peer EXCEPT
                !.processorState = ex.state,
                !.lastExtract = <<[call |-> call, ret |-> ex.ret,
                                   hit |-> TRUE]>>]
       ELSE peer' = [peer EXCEPT
                !.processorState = ex.state,
                !.extract = <<call>>]
    /\ UNCHANGED sessionVars
    /\ UNCHANGED processorVars
    /\ UNCHANGED utilityVars

\* the frame source of the second instance's call answers
PeerExtractSourceDone ==
    LET call == peer.extract[1]
        ex == ExtractEnd(peer.frameBuffer, peer.processorState, call.videoUri,
                         call.frameIndex, call.options)
    IN
    /\ peer.extract # <<>>
    /\ peer' = [peer EXCEPT
          !.frameBuffer = ex.buffer,
          !.processorState = ex.state,
          !.extract = <<>>,
          !.lastExtract = <<[call |-> call, ret |-> ex.ret, hit |-> FALSE]>>]
    /\ UNCHANGED sessionVars
    /\ UNCHANGED processorVars
    /\ UNCHANGED utilityVars

\* a call that is still to be made
Pending(fn, args) == [fn |-> fn, args |-> args, returned |-> FALSE,
                      result |-> Null]

\* no utility function is called
UtilityInit == utilityCall = Pending("none", <<>>)

Init == SessionInit /\ ProcessorInit /\ UtilityInit /\ PeerInit

Next ==
    \/ \E q \in ConversionRequests : ConvertToSBS(q.videoUri, q.options)
    \/ \E r \in 1..Len(runs) : ConversionStep(r)
    \/ CancelConversion
    \/ ClearCache

Spec == Init /\ [][Next]_vars

\* the frame processor under batches, cancellation and cache clears
NextBatch ==
    \/ \E q \in BatchRequests :
          ProcessBatch(FrameVideo, q.startFrame, q.endFrame, q.options)
    \/ \E b \in 1..Len(batches) : BatchSourceDone(b)
    \/ \E b \in 1..Len(batches) : BatchResume(b, FALSE)
    \/ CancelProcessing
    \/ ClearFrameBuffer

SpecBatch == Init /\ [][NextBatch]_vars

\* the frame cache filled past its limit: extractFrame calls one after the
\* other, for the next index never requested since the last clear, for the
\* first index inserted since then, or for the oldest entry present
FreshIndex ==
    LET logged == {insertLog[k] : k \in 1..Len(insertLog)}
    IN  IF logged = {} THEN 0
        ELSE 1 + CHOOSE m \in logged : \A x \in logged : x <= m

CacheRequests ==
    ({FreshIndex} \cap 0..MaxFreshIndex)
        \cup (IF insertLog = <<>> THEN {} ELSE {insertLog[1]})
        \cup (IF frameBuffer = <<>> THEN {} ELSE {frameBuffer[1].key})

NextCache ==
    \/ \E frameIndex \in CacheRequests :
          /\ extracts = <<>>
          /\ ExtractFrame(FrameVideo, frameIndex, RgbaOptions)
    \/ \E e \in 1..Len(extracts) : ExtractSourceDone(e)
    \/ ClearFrameBuffer

SpecCache == Init /\ [][NextCache]_vars

\* the three asynchronous calls with every error they can meet.  The two
\* hooks share no state, so a behaviour uses one of them: the converter as
\* in Spec, or the frame processor under batches whose onProgress may throw,
\* or under direct extractFrame calls, one at a time, of a good and of a
\* failing frame source.  Clearing a cache is none of the three calls and
\* throws nothing; it is left to Spec and SpecBatch.
CallBatchRequests ==
    {[startFrame |-> 0, endFrame |-> 2, options |-> RgbaOptions],
     [startFrame |-> 0, endFrame |-> 2, options |-> BadOptions]}

ExtractRequests ==
    {[frameIndex |-> 0, options |-> RgbaOptions],
     [frameIndex |-> 0, options |-> BadOptions],
     [frameIndex |-> 1, options |-> RgbaOptions]}

NextCalls ==
    \/ /\ ProcessorInit
       /\ \/ \E q \in ConversionRequests : ConvertToSBS(q.videoUri, q.options)
          \/ \E r \in 1..Len(runs) : ConversionStep(r)
          \/ CancelConversion
    \/ /\ SessionInit /\ extracts = <<>> /\ lastExtract = <<>>
       /\ \/ \E q \in CallBatchRequests :
                ProcessBatch(FrameVideo, q.startFrame, q.endFrame, q.options)
          \/ \E b \in 1..Len(batches) : BatchSourceDone(b)
          \/ \E b \in 1..Len(batches), onProgressThrows \in BOOLEAN :
                BatchResume(b, onProgressThrows)
          \/ CancelProcessing
    \/ /\ SessionInit /\ batches = <<>> /\ processorRef = 0
       /\ \/ \E q \in ExtractRequests :
                /\ extracts = <<>>
                /\ ExtractFrame(FrameVideo, q.frameIndex, q.options)
          \/ \E e \in 1..Len(extracts) : ExtractSourceDone(e)

SpecCalls == Init /\ [][NextCalls]_vars

\* the three asynchronous calls of NextCalls, at most MaxLiveCalls of
\* convertToSBS and of processBatch, under fair scheduling: a timer that was
\* set fires (setTimeout of convertToSBS, l.191), a frame source that was
\* called answers or fails (the 50 ms timer of simulateFrameExtraction,
\* l.113), and a call whose awaited promise is settled is resumed (the
\* microtask queue)
NextLive ==
    \/ /\ ProcessorInit
       /\ \/ \E q \in ConversionRequests :
                /\ Len(runs) < MaxLiveCalls
                /\ ConvertToSBS(q.videoUri, q.options)
          \/ \E r \in 1..Len(runs) : ConversionStep(r)
          \/ CancelConversion
    \/ /\ SessionInit /\ extracts = <<>> /\ lastExtract = <<>>
       /\ \/ \E q \in CallBatchRequests :
                /\ Len(batches) < MaxLiveCalls
                /\ ProcessBatch(FrameVideo, q.startFrame, q.endFrame,
                                q.options)
          \/ \E b \in 1..Len(batches) : BatchSourceDone(b)
          \/ \E b \in 1..Len(batches), onProgressThrows \in BOOLEAN :
                BatchResume(b, onProgressThrows)
          \/ CancelProcessing
    \/ /\ SessionInit /\ batches = <<>> /\ processorRef = 0
       /\ \/ \E q \in ExtractRequests :
                /\ extracts = <<>>
                /\ ExtractFrame(FrameVideo, q.frameIndex, q.options)
          \/ \E e \in 1..Len(extracts) : ExtractSourceDone(e)

Fairness ==
    /\ \A r \in 1..MaxLiveCalls :
          WF_vars(r \in 1..Len(runs) /\ ConversionStep(r))
    /\ \A b \in 1..MaxLiveCalls :
          /\ WF_vars(b \in 1..Len(batches) /\ BatchSourceDone(b))
          /\ WF_vars(b \in 1..Len(batches)
                        /\ \E onProgressThrows \in BOOLEAN :
                              BatchResume(b, onProgressThrows))
    /\ WF_vars(\E e \in 1..Len(extracts) : ExtractSourceDone(e))

SpecLive == Init /\ [][NextLive]_vars /\ Fairness

\* direct extractFrame calls, one at a time, over two videos, two indices
\* and the options of a 2x1 rgba, a 2x1 yuv, a 1x1 rgba and a failing frame
\* source, with clears of the frame cache in between
YuvOptions == [width |-> 2, height |-> 1, format |-> "yuv"]
SmallOptions == [width |-> 1, height |-> 1, format |-> "rgba"]
OtherVideo == <<"file:b.mp4">>

ExtractCalls ==
    [videoUri : {FrameVideo, OtherVideo}, frameIndex : {0, 1},
     options : {RgbaOptions, YuvOptions, SmallOptions, BadOptions}]

NextExtract ==
    \/ \E q \in ExtractCalls :
          /\ extracts = <<>>
          /\ ExtractFrame(q.videoUri, q.frameIndex, q.options)
    \/ \E e \in 1..Len(extracts) : ExtractSourceDone(e)
    \/ ClearFrameBuffer

SpecExtract == Init /\ [][NextExtract]_vars

\* processBatch with the onProgress callback of its caller, which may throw
\* at any report: batches over a range of three frames, over a failing frame
\* source and over an empty range, with cancellation
NextReport ==
    \/ \E q \in BatchRequests :
          ProcessBatch(FrameVideo, q.startFrame, q.endFrame, q.options)
    \/ \E b \in 1..Len(batches) : BatchSourceDone(b)
    \/ \E b \in 1..Len(batches), onProgressThrows \in BOOLEAN :
          BatchResume(b, onProgressThrows)
    \/ CancelProcessing

SpecReport == Init /\ [][NextReport]_vars

\* two instances of each hook in one process.  The hooks share no state, so
\* a behaviour uses the two converters or the two frame processors; each
\* instance makes its calls one after the other
NextShared ==
    \/ /\ ProcessorInit /\ peer.extract = <<>> /\ peer.lastExtract = <<>>
       /\ \/ \E q \in ConversionRequests :
                /\ \A r \in 1..Len(runs) : ~InFlight(runs[r])
                /\ ConvertToSBS(q.videoUri, q.options)
          \/ \E r \in 1..Len(runs) : ConversionStep(r)
          \/ \E q \in ConversionRequests :
                PeerConvertToSBS(q.videoUri, q.options)
          \/ PeerConversionStep
    \/ /\ SessionInit /\ peer.run = <<>> /\ peer.lastConvert = <<>>
       /\ \/ \E q \in ExtractRequests :
                /\ extracts = <<>>
                /\ ExtractFrame(FrameVideo, q.frameIndex, q.options)
          \/ \E e \in 1..Len(extracts) : ExtractSourceDone(e)
          \/ \E q \in ExtractRequests :
                PeerExtractFrame(FrameVideo, q.frameIndex, q.options)
          \/ PeerExtractSourceDone

SpecShared == Init /\ [][NextShared]_vars

(***************************************************************************)
(* Exported utility functions                                              *)
(***************************************************************************)
\* '瞳距應在 50-80mm 之間'
PupilDistanceMessage == <<"pupil distance should be within 50-80mm">>
\* '聚焦距離應在 500-5000mm 之間'
ConvergenceDistanceMessage ==
    <<"convergence distance should be within 500-5000mm">>

\* options.pupilDistance < 50 || options.pupilDistance > 80
PupilDistanceLow == 50
PupilDistanceHigh == 80
\* options.convergenceDistance < 500 || options.convergenceDistance > 5000
ConvergenceDistanceLow == 500
ConvergenceDistanceHigh == 5000

\* a slip: the function returns at the first violated field
validateSBSOptionsFirstOnly(options) ==
    IF options.pupilDistance < PupilDistanceLow
           \/ options.pupilDistance > PupilDistanceHigh
    THEN [valid |-> FALSE, errors |-> <<PupilDistanceMessage>>]
    ELSE IF options.convergenceDistance < ConvergenceDistanceLow
               \/ options.convergenceDistance > ConvergenceDistanceHigh
         THEN [valid |-> FALSE, errors |-> <<ConvergenceDistanceMessage>>]
         ELSE [valid |-> TRUE, errors |-> <<>>]

\* validateSBSOptions: errors.push(...) per violated field, then
\* { valid: errors.length === 0, errors }
validateSBSOptions(options) ==
    LET errors0 == <<>>
        errors1 == IF options.pupilDistance < PupilDistanceLow
                          \/ options.pupilDistance > PupilDistanceHigh
                   THEN Append(errors0, PupilDistanceMessage) ELSE errors0
        errors == IF options.convergenceDistance < ConvergenceDistanceLow
                         \/ options.convergenceDistance > ConvergenceDistanceHigh
                  THEN Append(errors1, ConvergenceDistanceMessage) ELSE errors1
    IN  [valid |-> Len(errors) = 0, errors |-> errors]

\* the options the validator is called with: every pupil distance around
\* its range, the convergence distances at and next to the range's ends
ValidatedPupilDistances == (PupilDistanceLow - MaxMargin)..(PupilDistanceHigh + MaxMargin)
ValidatedConvergenceDistances ==
    {0, 1000}
        \cup ((ConvergenceDistanceLow - 1)..(ConvergenceDistanceLow + 1))
        \cup ((ConvergenceDistanceHigh - 1)..(ConvergenceDistanceHigh + 1))

\* the pending call of fn returns result
Return(fn, result) ==
    /\ utilityCall.fn = fn
    /\ ~utilityCall.returned
    /\ utilityCall' = [utilityCall EXCEPT !.returned = TRUE, !.result = result]

\* the call of validateSBSOptions
ValidateSBSOptions ==
    /\ Return("validateSBSOptions", validateSBSOptions(utilityCall.args.options))
    /\ UNCHANGED sessionVars
    /\ UNCHANGED processorVars
    /\ UNCHANGED peerVars

\* Math.floor, Math.ceil and Math.round (halves go up) of a fraction
MathFloor(p) == p.n \div p.d
MathCeil(p) == -((-p.n) \div p.d)
MathRound(p) == (2 * p.n + p.d) \div (2 * p.d)

\* 1920 * 1080 * 4 and 500 * 1024 * 1024 of optimizeFrameExtraction
AssumedWidth == 1920
AssumedHeight == 1080
AssumedBytesPerPixel == 4
MaxMemoryMB == 500
BytesPerKB == 1024

\* Memory is counted in KiB: every byte count of optimizeFrameExtraction is a
\* multiple of 1024, and the byte counts themselves exceed 2^31.
estimatedMemoryPerFrame ==
    (AssumedWidth * AssumedHeight * AssumedBytesPerPixel) \div BytesPerKB
maxMemory == MaxMemoryMB * BytesPerKB

\* a slip: the duration is divided by the frame rate
totalFramesDivided(duration, fps) ==
    MathRound(Frac(duration.n, duration.d * fps))

\* Math.round(duration * fps), the duration a fraction of a second
totalFramesOf(duration, fps) == MathRound(Frac(duration.n * fps, duration.d))

\* a slip: the rate is rounded down
samplingRateFloor(totalMemory) ==
    LET rate == MathFloor(Frac(totalMemory, maxMemory))
    IN  IF rate < 1 THEN 1 ELSE rate

\* Math.max(1, Math.ceil(totalMemory / maxMemory))
samplingRateOf(totalMemory) ==
    LET rate == MathCeil(Frac(totalMemory, maxMemory))
    IN  IF rate < 1 THEN 1 ELSE rate

\* a slip: the memory is taken to be the size of the video file (in KiB)
optimizeFrameExtractionBySize(videoSize, duration, fps) ==
    LET totalFrames == totalFramesOf(duration, fps)
        totalMemory == videoSize \div BytesPerKB
        samplingRate == samplingRateOf(totalMemory)
    IN  [samplingRate |-> samplingRate,
         effectiveFrames |-> MathCeil(Frac(totalFrames, samplingRate)),
         estimatedMemory |-> Frac(totalMemory, samplingRate * BytesPerKB)]

\* optimizeFrameExtraction; estimatedMemory is (totalMemory / samplingRate)
\* / (1024 * 1024) of the byte count, in MiB
optimizeFrameExtraction(videoSize, duration, fps) ==
    LET totalFrames == totalFramesOf(duration, fps)
        totalMemory == totalFrames * estimatedMemoryPerFrame
        samplingRate == samplingRateOf(totalMemory)
    IN  [samplingRate |-> samplingRate,
         effectiveFrames |-> MathCeil(Frac(totalFrames, samplingRate)),
         estimatedMemory |-> Frac(totalMemory, samplingRate * BytesPerKB)]

\* the plans asked for: durations of whole and half seconds, usual frame
\* rates, a small and a large file
PlannedDurations == {Frac(h, 2) : h \in 0..MaxHalfSeconds}
PlannedFps == {24, 25, 30, 60}
PlannedVideoSizes == {BytesPerKB * BytesPerKB, 100 * BytesPerKB * BytesPerKB}

\* the call of optimizeFrameExtraction
OptimizeFrameExtraction ==
    /\ Return("optimizeFrameExtraction",
              optimizeFrameExtraction(utilityCall.args.videoSize,
                                      utilityCall.args.duration,
                                      utilityCall.args.fps))
    /\ UNCHANGED sessionVars
    /\ UNCHANGED processorVars
    /\ UNCHANGED peerVars

\* the distances calculateDisparityShift is called with: a pupil distance of
\* either sign, a positive convergence distance
ShiftPupilDistances == (-MaxShiftPupil)..MaxShiftPupil
ShiftConvergenceDistances == {1, 250, 500, 1000, 5000}

\* the call of calculateDisparityShift
CalculateDisparityShift ==
    /\ Return("calculateDisparityShift",
              calculateDisparityShift(utilityCall.args.pupilDistance,
                                      utilityCall.args.convergenceDistance))
    /\ UNCHANGED sessionVars
    /\ UNCHANGED processorVars
    /\ UNCHANGED peerVars

\* Math.max(50, Math.min(80, optimalDistance))
OptimalLow == 50
OptimalHigh == 80

\* (screenWidth * Math.tan((30 * Math.PI) / 180)) / 2 is screenWidth /
\* sqrt(12), no fraction.  A distance x >= 0 is held as the integer 12 * x^2,
\* which orders the distances as they are ordered: screenWidth^2 for the
\* optimal distance, 12 * 50^2 and 12 * 80^2 for the limits.
TwelveSquares(x) == 12 * x * x

\* a slip: the distance is not limited
calculateOptimalPupilDistanceUnlimited(screenWidth, viewingDistance) ==
    IF screenWidth <= 0 THEN 0 ELSE screenWidth * screenWidth

\* calculateOptimalPupilDistance; a screenWidth <= 0 gives a distance <= 0,
\* which the lower limit replaces
calculateOptimalPupilDistance(screenWidth, viewingDistance) ==
    IF screenWidth <= 0 THEN TwelveSquares(OptimalLow)
    ELSE LET optimalDistance == screenWidth * screenWidth
             upper == IF TwelveSquares(OptimalHigh) < optimalDistance
                      THEN TwelveSquares(OptimalHigh) ELSE optimalDistance
         IN  IF upper < TwelveSquares(OptimalLow)
             THEN TwelveSquares(OptimalLow) ELSE upper

\* the screens asked about: every width in mm up to the bound, seen from
\* three distances
ScreenWidths == 1..MaxScreenWidth
ViewingDistances == {100, 600, 5000}

\* the call of calculateOptimalPupilDistance
CalculateOptimalPupilDistance ==
    /\ Return("calculateOptimalPupilDistance",
              calculateOptimalPupilDistance(utilityCall.args.screenWidth,
                                            utilityCall.args.viewingDistance))
    /\ UNCHANGED sessionVars
    /\ UNCHANGED processorVars
    /\ UNCHANGED peerVars

\* const bytesPerPixel = 4 of convertFrameToSBS
SbsBytesPerPixel == 4

\* The bytes of a frame's data.  The source fills them with Math.random()
\* * 255; here each byte is its position (1, 2, ...), so that all bytes of a
\* small frame differ, none is 0, and every copy shows where it came from.
FrameBytes(data) == [k \in 1..data.length |-> k]

\* data[idx] as a Uint8Array element stores it: an index past the end reads
\* undefined, which is stored as 0
ByteAt(bytes, idx) == IF idx >= 0 /\ idx < Len(bytes) THEN bytes[idx + 1] ELSE 0

\* convertFrameToSBS: the two loops write every byte of sbsData once; the
\* byte at dst comes from column x of the source for the left half and from
\* column srcX for the right half
convertFrameToSBS(frame, disparityShift) ==
    LET data == FrameBytes(frame.data)
        width == frame.width
        height == frame.height
        bytesPerPixel == SbsBytesPerPixel
        shiftPixels == MathRound(Frac(disparityShift.n * width,
                                      disparityShift.d * 100))
        SrcIdx(dst) ==
            LET y == dst \div (width * 2 * bytesPerPixel)
                column == (dst % (width * 2 * bytesPerPixel)) \div bytesPerPixel
                byte == dst % bytesPerPixel
                x == IF column < width THEN column ELSE column - width
                shifted == x + shiftPixels
                srcX == IF column < width THEN x
                        ELSE IF shifted > width - 1
                             THEN (IF width - 1 < 0 THEN 0 ELSE width - 1)
                             ELSE IF shifted < 0 THEN 0 ELSE shifted
            IN  (y * width + srcX) * bytesPerPixel + byte
        sbsData == [k \in 1..(width * 2 * height * bytesPerPixel) |->
                       ByteAt(data, SrcIdx(k - 1))]
    IN  [data |-> sbsData, width |-> width * 2, height |-> height,
         timestamp |-> frame.timestamp]

\* the frames converted: every size up to the bounds, of both formats, as
\* simulateFrameExtraction makes them; the shifts in percent of the width
SbsFrames ==
    {simulateFrameExtraction(FrameVideo, 1,
                             [width |-> width, height |-> height,
                              format |-> format]) :
         width \in 0..MaxFrameWidth, height \in 0..MaxFrameHeight,
         format \in {"rgba", "yuv"}}
SbsShifts == {Frac(shift, 1) : shift \in {-100, -50, -10, 0, 10, 50, 100}}

\* the call of convertFrameToSBS
ConvertFrameToSBS ==
    /\ Return("convertFrameToSBS",
              convertFrameToSBS(utilityCall.args.frame,
                                utilityCall.args.disparityShift))
    /\ UNCHANGED sessionVars
    /\ UNCHANGED processorVars
    /\ UNCHANGED peerVars

\* the calls of the utility functions, each with any of its inputs
UtilityCalls ==
    {Pending("convertFrameToSBS",
             [frame |-> frame, disparityShift |-> disparityShift]) :
         frame \in SbsFrames, disparityShift \in SbsShifts}
    \cup
    {Pending("validateSBSOptions",
             [options |-> [enabled |-> TRUE, pupilDistance |-> pupilDistance,
                           convergenceDistance |-> convergenceDistance]]) :
         pupilDistance \in ValidatedPupilDistances,
         convergenceDistance \in ValidatedConvergenceDistances}
    \cup
    {Pending("optimizeFrameExtraction",
             [videoSize |-> videoSize, duration |-> duration, fps |-> fps]) :
         videoSize \in PlannedVideoSizes, duration \in PlannedDurations,
         fps \in PlannedFps}
    \cup
    {Pending("calculateDisparityShift",
             [pupilDistance |-> pupilDistance,
              convergenceDistance |-> convergenceDistance]) :
         pupilDistance \in ShiftPupilDistances,
         convergenceDistance \in ShiftConvergenceDistances}
    \cup
    {Pending("calculateOptimalPupilDistance",
             [screenWidth |-> screenWidth,
              viewingDistance |-> viewingDistance]) :
         screenWidth \in ScreenWidths, viewingDistance \in ViewingDistances}

\* one call of one utility function
NextUtility ==
    \/ ValidateSBSOptions
    \/ OptimizeFrameExtraction
    \/ CalculateDisparityShift
    \/ CalculateOptimalPupilDistance
    \/ ConvertFrameToSBS

\* both hooks unused, and any one call of a utility function to be made
InitUtility ==
    SessionInit /\ ProcessorInit /\ PeerInit /\ utilityCall \in UtilityCalls

SpecUtility == InitUtility /\ [][NextUtility]_vars

(***************************************************************************)
(* Properties of the Conversion Session                                    *)
(***************************************************************************)
RunIds == 1..Len(runs)

\* what convertToSBS computes for a request
ExpectedUri(run) ==
    generateSBSUri(run.videoUri,
                   calculateDisparityShift(run.options.pupilDistance,
                                           run.options.convergenceDistance))

\* the step is a call of convertToSBS
IsConvertCall == Len(runs') = Len(runs) + 1

\* the session's state, read off SBSConverterState
Phase(st) ==
    IF st.isConverting THEN "Converting"
    ELSE IF st.progress = ProgressEnd /\ st.convertedUri # Null THEN "Completed"
    ELSE IF st.error = ConversionCancelled THEN "Cancelled"
    ELSE IF st.error # Null THEN "Failed"
    ELSE "Idle"

\* C1: a run during which cancel() was called returns no result and never
\* inserts into the Result Cache (so it never moves the session to
\* Completed), at whichever step the cancel arrived and whatever followed.
C1_CancelledRunYieldsNothing ==
    \A r \in RunIds :
        runs[r].cancelSeen =>
            /\ ~runs[r].inserted
            /\ runs[r].pc = "returned" => runs[r].result = Null

\* C2: at most one conversion run is in flight in every reachable state.
C2_SingleFlight ==
    Cardinality({r \in RunIds : InFlight(runs[r])}) <= 1

\* C3: a convert() of a request that was converted and cached since the
\* last clearCache() returns at once, from the cache, the same result as the
\* completed run, without a controller, a loop or the Converting state, and
\* leaves progress at 100.
C3_Idempotent ==
    /\ [](\A r \in RunIds :
            runs[r].wasCompleted =>
                /\ runs[r].viaCache /\ runs[r].pc = "returned"
                /\ runs[r].ctrl = 0 /\ runs[r].i = 0
                /\ runs[r].result = ExpectedUri(runs[r])
                /\ \A q \in RunIds :
                      (/\ runs[q].inserted
                       /\ runs[q].videoUri = runs[r].videoUri
                       /\ runs[q].options = runs[r].options)
                      => runs[q].result = runs[r].result)
    /\ [][(IsConvertCall /\ runs'[Len(runs')].wasCompleted) =>
            /\ converterState'.progress = ProgressEnd
            /\ ~converterState'.isConverting
            /\ converterState'.convertedUri = runs'[Len(runs')].result
            /\ UNCHANGED <<conversionCache, conversionRef, convAborted>>]_vars

\* C3 witness: a second convert() of a completed request has returned its
\* cached result.
C3_Witness ==
    \E r \in RunIds :
        /\ runs[r].wasCompleted /\ runs[r].viaCache
        /\ runs[r].result # Null
        /\ \E q \in 1..(r - 1) : runs[q].inserted /\ runs[q].result = runs[r].result

\* C7: Cancelled and Failed are entered only from Converting, Completed only
\* from Converting or by a Result Cache hit of convert(), and cancel() with
\* no run in flight does not move the session to Cancelled.
C7_StateMachine ==
    [][LET from == Phase(converterState)
           to == Phase(converterState')
       IN  /\ (to = "Cancelled" /\ from # "Cancelled") => from = "Converting"
           /\ (to = "Failed" /\ from # "Failed") => from = "Converting"
           /\ (to = "Completed" /\ from # "Completed") =>
                 \/ from = "Converting"
                 \/ IsConvertCall /\ runs'[Len(runs')].viaCache
           /\ (CancelConversion /\ \A r \in RunIds : ~InFlight(runs[r])) =>
                 (to = "Cancelled" => from = "Cancelled")]_vars

\* C8: a convert() during another run replaces the session's token and
\* signals no token, every run in flight stays in flight; as long as no
\* token has been signalled a superseded run that returns returns its own
\* result, having inserted it into the Result Cache.
C8_SupersededRunCompletes ==
    /\ [](\A r \in RunIds :
            (runs[r].superseded /\ convAborted = {} /\ runs[r].pc = "returned")
                => /\ runs[r].inserted
                   /\ runs[r].result = ExpectedUri(runs[r]))
    /\ [][(IsConvertCall /\ ~runs'[Len(runs')].viaCache) =>
            /\ conversionRef' # conversionRef
            /\ conversionRef' \notin convAborted'
            /\ convAborted' = convAborted
            /\ \A r \in RunIds :
                  /\ runs'[r].pc = runs[r].pc
                  /\ InFlight(runs[r]) =>
                        runs'[r].superseded /\ runs'[r].ctrl # conversionRef']_vars
    /\ [][\A r \in RunIds :
            (runs'[r].inserted /\ ~runs[r].inserted) =>
                LET key == cacheKey(runs[r].videoUri, runs[r].options)
                IN  /\ key \in DOMAIN conversionCache'
                    /\ conversionCache'[key] = runs'[r].result
                    /\ runs'[r].result = ExpectedUri(runs[r])]_vars

\* C8 witness: a run superseded while in flight has completed and its
\* result is in the Result Cache, with no token signalled, while the run
\* that superseded it is still in flight.
C8_Witness ==
    \E r \in RunIds :
        /\ runs[r].superseded /\ runs[r].inserted /\ convAborted = {}
        /\ runs[r].ctrl # conversionRef
        /\ cacheKey(runs[r].videoUri, runs[r].options) \in DOMAIN conversionCache
        /\ \E q \in RunIds : q > r /\ InFlight(runs[q])

\* C9: while the session is Converting the progress it reports never
\* decreases (steps that are not a new convert() call).
C9_MonotoneProgress ==
    [][(converterState.isConverting /\ converterState'.isConverting
            /\ ~IsConvertCall)
          => converterState'.progress >= converterState.progress]_vars

\* the step empties the Result Cache (only clearCache removes entries or
\* resets convertedUri)
IsClearCache ==
    /\ conversionCache' = <<>>
    /\ converterState'.convertedUri = Null
    /\ conversionCache # <<>> \/ converterState.convertedUri # Null

\* C12: clearCache() empties the Result Cache and leaves the runs in flight
\* as they are: isConverting, progress and error are unchanged, no token is
\* signalled or replaced, every run stays where it is in its loop; and a
\* run that returns while no token is signalled returns its result, having
\* inserted it into the (cleared) Result Cache.
C12_ClearCacheLeavesRun ==
    /\ [][IsClearCache =>
            /\ converterState'.isConverting = converterState.isConverting
            /\ converterState'.progress = converterState.progress
            /\ converterState'.error = converterState.error
            /\ convAborted' = convAborted
            /\ conversionRef' = conversionRef
            /\ runs' = runs]_vars
    /\ [][\A r \in RunIds :
            (InFlight(runs[r]) /\ ~InFlight(runs'[r]) /\ convAborted = {}) =>
                LET key == cacheKey(runs[r].videoUri, runs[r].options)
                IN  /\ runs'[r].inserted
                    /\ runs'[r].result = ExpectedUri(runs[r])
                    /\ key \in DOMAIN conversionCache'
                    /\ conversionCache'[key] = runs'[r].result]_vars

\* C12 witness: two runs overlapped, the first completed and cached its
\* result, clearCache() then removed it while the second was in flight, and
\* the second completed and cached its own result (its key is the only
\* one left), with no token signalled.
C12_Witness ==
    /\ Len(runs) = 2
    /\ convAborted = {}
    /\ runs[1].superseded /\ runs[1].inserted
    /\ runs[2].inserted /\ ~runs[2].viaCache
    /\ cacheKey(runs[1].videoUri, runs[1].options) \notin DOMAIN conversionCache
    /\ cacheKey(runs[2].videoUri, runs[2].options) \in DOMAIN conversionCache
    /\ converterState.convertedUri = runs[2].result
    /\ ~converterState.isConverting

\* C13: convert() checks the options before any work starts: for a
\* pupilDistance outside [50, 80] or a convergenceDistance outside
\* [500, 5000] the call reports the validation failure (one of its messages
\* is the session's error) and the session does not enter Converting.
C13_ValidatedBeforeWork ==
    [][IsConvertCall =>
          LET run == runs'[Len(runs')]
              checked == validateSBSOptions(run.options)
          IN  ~checked.valid =>
                  /\ \E k \in 1..Len(checked.errors) :
                        converterState'.error = checked.errors[k]
                  /\ ~converterState'.isConverting
                  /\ ~InFlight(run)]_vars

(***************************************************************************)
(* Properties of the Frame Cache and the Batch Conversion Controller       *)
(***************************************************************************)
BatchIds == 1..Len(batches)

\* the place of the latest insertion of frameIndex in the insertion history
InsertedAt(frameIndex) ==
    CHOOSE k \in 1..Len(insertLog) :
        /\ insertLog[k] = frameIndex
        /\ \A m \in (k + 1)..Len(insertLog) : insertLog[m] # frameIndex

\* the entry present that was inserted earliest
EarliestInserted ==
    CHOOSE key \in BufferKeys(frameBuffer) :
        \A other \in BufferKeys(frameBuffer) : InsertedAt(key) <= InsertedAt(other)

\* the step inserts a new entry into the frame buffer
IsInsertion == Len(insertLog') = Len(insertLog) + 1

\* exactly n indices were inserted since the last clear, all different
InsertedDistinct(n) ==
    /\ Len(insertLog) = n
    /\ Cardinality({insertLog[k] : k \in 1..Len(insertLog)}) = n

\* C4: a batch during which cancel() was called returns fewer frames than
\* its range holds.
C4_CancelledBatchIsPartial ==
    \A b \in BatchIds :
        (batches[b].cancelSeen /\ batches[b].pc = "returned") =>
            Len(batches[b].frames) < batches[b].endFrame - batches[b].startFrame

\* C5: once the frame source has failed for an index of a batch, the batch
\* attempts no extraction for a greater index.
C5_FailureAbortsBatch ==
    \A b \in BatchIds : \A f \in batches[b].failed : batches[b].i <= f

\* C6: the frame buffer never holds more than 100 entries nor an index
\* twice; an insertion into a full buffer removes exactly the entry inserted
\* earliest among those present and keeps the new one, any other insertion
\* removes nothing; a cache hit leaves the buffer as it is; after 101
\* insertions of distinct indices 100 entries are held and the first index
\* inserted is not among them.
C6_FifoCache ==
    /\ [](Len(frameBuffer) <= BufferLimit)
    /\ [](Cardinality(BufferKeys(frameBuffer)) = Len(frameBuffer))
    /\ [](InsertedDistinct(BufferLimit + 1) =>
            (Len(frameBuffer) = BufferLimit
                /\ insertLog[1] \notin BufferKeys(frameBuffer)))
    /\ [][IsInsertion =>
            LET new == insertLog'[Len(insertLog')]
                gone == BufferKeys(frameBuffer) \ BufferKeys(frameBuffer')
            IN  /\ new \in BufferKeys(frameBuffer')
                /\ BufferKeys(frameBuffer') \subseteq
                      BufferKeys(frameBuffer) \cup {new}
                /\ IF Len(frameBuffer) = BufferLimit
                   THEN gone = {EarliestInserted}
                   ELSE gone = {}]_vars
    /\ [][(lastExtract' # lastExtract /\ lastExtract'[1].hit) =>
            frameBuffer' = frameBuffer /\ insertLog' = insertLog]_vars

\* C6 witness: 101 distinct indices were inserted, 100 entries are held and
\* the first index inserted is absent.
C6_Witness ==
    /\ InsertedDistinct(BufferLimit + 1)
    /\ Len(frameBuffer) = BufferLimit
    /\ insertLog[1] \notin BufferKeys(frameBuffer)

\* C10: every progress value of the frame processor and of the converter is
\* an integer between 0 and 100.
C10_IntegerProgress ==
    /\ processorState.progress.d = 1
    /\ processorState.progress.n \in 0..100
    /\ converterState.progress \in 0..100

\* C11: convertToSBS, extractFrame and processBatch never propagate an
\* exception: no call ends rejected, and a call that met an error (a
\* cancellation, a failure of the frame source, an error thrown by
\* onProgress) returns with the error's message in its component's error
\* state: null from convertToSBS and extractFrame, the frames accumulated so
\* far from processBatch.
C11_FailuresAreCaptured ==
    /\ [](/\ \A r \in RunIds : runs[r].pc # "rejected"
          /\ \A b \in BatchIds : batches[b].pc # "rejected"
          /\ \A k \in 1..Len(lastExtract) : ~lastExtract[k].rejected)
    /\ [][\A r \in RunIds :
            (runs'[r].thrown # Null /\ runs[r].thrown = Null) =>
                /\ runs'[r].pc = "returned"
                /\ runs'[r].result = Null
                /\ converterState'.error = runs'[r].thrown]_vars
    /\ [][\A b \in BatchIds :
            (batches'[b].thrown # Null /\ batches[b].thrown = Null) =>
                /\ batches'[b].pc = "returned"
                /\ batches'[b].frames = batches[b].frames \o batches[b].ret
                /\ processorState'.error = batches'[b].thrown]_vars
    /\ [][\A b \in BatchIds :
            batches'[b].failed # batches[b].failed =>
                /\ batches'[b].pc = "resolved"
                /\ batches'[b].ret = <<>>
                /\ processorState'.error = InvalidArrayLength]_vars
    /\ [][(lastExtract' # lastExtract /\ lastExtract'[1].threw) =>
            /\ lastExtract'[1].ret = <<>>
            /\ processorState'.error = InvalidArrayLength]_vars

\* C11 witness: a cancelled batch has returned the frame it had, with the
\* cancellation's message in the error state
C11_Witness ==
    \E b \in BatchIds :
        /\ batches[b].pc = "returned"
        /\ batches[b].thrown = ProcessingCancelled
        /\ Len(batches[b].frames) = 1
        /\ processorState.error = ProcessingCancelled

(***************************************************************************)
(* Properties of the utility functions                                     *)
(***************************************************************************)
\* the call of fn has returned
Returned(fn) == utilityCall.fn = fn /\ utilityCall.returned

\* C14: validateSBSOptions returns for every (pupilDistance,
\* convergenceDistance); errors holds exactly one message per violated field
\* (pupilDistance outside [50, 80], convergenceDistance outside [500, 5000]),
\* the two messages differ, nothing else is in the list, and valid is true
\* exactly when the list is empty, so that the bounds themselves are
\* accepted and two violated fields give two messages.
C14_ValidateAccumulates ==
    Returned("validateSBSOptions") =>
        LET o == utilityCall.args.options
            res == utilityCall.result
            pdViolated == o.pupilDistance \notin 50..80
            cdViolated == o.convergenceDistance \notin 500..5000
            Holds(m) == \E k \in 1..Len(res.errors) : res.errors[k] = m
        IN  /\ PupilDistanceMessage # ConvergenceDistanceMessage
            /\ Holds(PupilDistanceMessage) <=> pdViolated
            /\ Holds(ConvergenceDistanceMessage) <=> cdViolated
            /\ Len(res.errors) = (IF pdViolated THEN 1 ELSE 0)
                                   + (IF cdViolated THEN 1 ELSE 0)
            /\ res.valid <=> (res.errors = <<>>)

\* both fields are violated and both messages are returned
C14_Witness ==
    /\ Returned("validateSBSOptions")
    /\ utilityCall.args.options.pupilDistance > 80
    /\ utilityCall.args.options.convergenceDistance > 5000
    /\ Len(utilityCall.result.errors) = 2

C16_KeptFramesFitBudget ==
    Returned("optimizeFrameExtraction") =>
        utilityCall.result.effectiveFrames * 8100 <= 500 * 1024

SourceRow(frame, y) ==
    LET bytes == FrameBytes(frame.data)
        rowLength == Len(bytes) \div frame.height
    IN  SubSeq(bytes, y * rowLength + 1, (y + 1) * rowLength)

SourcePixel(frame, x, y) ==
    LET row == SourceRow(frame, y)
        pixelLength == Len(row) \div frame.width
    IN  SubSeq(row, x * pixelLength + 1, (x + 1) * pixelLength)

\* C21: for every source frame of width w and height h and every shift the
\* output of convertFrameToSBS has width 2w, height h, the source timestamp
\* and 2w * h * 4 bytes (none for a zero-area frame); in every row the
\* destination columns [0, w) are the bytes of the source row, and the
\* destination column w + x holds the source pixel of column
\* clamp(x + round(shift / 100 * w), 0, w - 1).
C21_SbsLayout ==
    Returned("convertFrameToSBS") =>
        LET frame == utilityCall.args.frame
            shift == utilityCall.args.disparityShift
            out == utilityCall.result
            w == frame.width
            h == frame.height
            shiftPixels == MathRound(Frac(shift.n * w, shift.d * 100))
            Clamp(x) == IF x > w - 1 THEN w - 1 ELSE IF x < 0 THEN 0 ELSE x
            OutPixel(column, y) ==
                SubSeq(out.data, (y * 2 * w + column) * 4 + 1,
                       (y * 2 * w + column) * 4 + 4)
        IN  /\ out.width = 2 * w
            /\ out.height = h
            /\ out.timestamp = frame.timestamp
            /\ Len(out.data) = 2 * w * h * 4
            /\ \A y \in 0..(h - 1) :
                  w > 0 =>
                      /\ SubSeq(out.data, y * 2 * w * 4 + 1,
                                y * 2 * w * 4 + w * 4) = SourceRow(frame, y)
                      /\ \A x \in 0..(w - 1) :
                            OutPixel(w + x, y)
                                = SourcePixel(frame, Clamp(x + shiftPixels), y)

(***************************************************************************)
(* extractFrame: the frames it makes, the frames it returns, its failures  *)
(***************************************************************************)
\* width x height x 4 bytes, the size of an RGBA pixel buffer
RgbaLength(frame) == frame.width * frame.height * 4

\* the frame the last direct extractFrame call returned, if it returned one
LastFrames ==
    IF lastExtract = <<>> THEN {}
    ELSE {lastExtract[1].ret[k] : k \in 1..Len(lastExtract[1].ret)}

\* C23: every frame extractFrame returns and every frame in the frame cache
\* has a pixel buffer of exactly width x height x 4 bytes, whatever the
\* requested format
C23_FramesAreRgbaSized ==
    /\ \A frame \in LastFrames : frame.data.length = RgbaLength(frame)
    /\ \A k \in 1..Len(frameBuffer) :
          frameBuffer[k].frame.data.length = RgbaLength(frameBuffer[k].frame)

\* the last direct call returned a frame made for its own request
ReturnsRequestedFrame ==
    \A frame \in LastFrames :
        LET call == lastExtract[1].call
        IN  /\ frame.data.videoUri = call.videoUri
            /\ frame.data.frameIndex = call.frameIndex
            /\ frame.data.format = call.options.format
            /\ frame.width = call.options.width
            /\ frame.height = call.options.height

\* a step in which a direct extractFrame call returns from the frame cache
IsCacheHit ==
    /\ lastExtract' # lastExtract
    /\ lastExtract' # <<>>
    /\ lastExtract'[1].hit

\* C26: extractFrame returns a frame extracted from the video, at the index
\* and with the width, height and format it was called with, from the cache
\* or from the frame source; a cache hit calls no frame source and changes
\* neither the frame cache nor the controller state
C26_ReturnsRequestedFrame ==
    /\ []ReturnsRequestedFrame
    /\ [][IsCacheHit => /\ extracts' = extracts
                        /\ frameBuffer' = frameBuffer
                        /\ processorState' = processorState]_vars

\* a step in which the frame source of the pending direct call fails
IsSourceFailure ==
    /\ extracts # <<>>
    /\ extracts' = <<>>
    /\ SimulationThrows(extracts[1].options)

\* C29: when the frame source fails, extractFrame returns null, records the
\* failure's message in the error state, sets isProcessing to false and
\* leaves the frame cache as it was
C29_SourceFailureIsRecorded ==
    [][IsSourceFailure =>
          /\ lastExtract' # <<>>
          /\ lastExtract'[1].call = extracts[1]
          /\ lastExtract'[1].ret = <<>>
          /\ ~lastExtract'[1].rejected
          /\ processorState'.error = InvalidArrayLength
          /\ ~processorState'.isProcessing
          /\ frameBuffer' = frameBuffer]_vars

\* a frame source has failed while the frame cache held a frame
C29_Witness ==
    /\ lastExtract # <<>>
    /\ lastExtract[1].threw
    /\ lastExtract[1].ret = <<>>
    /\ frameBuffer # <<>>
    /\ processorState.error = InvalidArrayLength

(***************************************************************************)
(* processBatch: cancellation, ordering and the error it leaves            *)
(***************************************************************************)
\* C24: once cancelProcessing() was called while a batch was in flight, that
\* batch starts no extraction for a further index (the extraction it awaits
\* may complete), whatever is called afterwards, a new processBatch included
C24_CancelledBatchStartsNothing ==
    [][\A b \in BatchIds :
          batches[b].cancelSeen => batches'[b].i = batches[b].i]_vars

\* batch b returns in this step
BatchReturns(b) ==
    /\ b \in 1..Len(batches')
    /\ batches'[b].pc = "returned"
    /\ b \in BatchIds => batches[b].pc # "returned"

\* batch b has run over its whole range with no cancel and no failed
\* extraction
RanClean(batch) ==
    /\ batch.thrown = Null
    /\ ~batch.cancelSeen
    /\ batch.failed = {}

\* batch b resumes after `await extractFrame` in this step
BatchResumes(b) ==
    /\ batches[b].pc = "resolved"
    /\ batches'[b].pc # "resolved" \/ batches'[b].i # batches[b].i

\* the frames are those of the indices from startFrame on, in order
InIndexOrder(batch) ==
    \A k \in 1..Len(batch.frames) :
        batch.frames[k].data.frameIndex = batch.startFrame + k - 1

\* what processBatch does while nothing of what `undisturbed` rules out has
\* happened to the batch: it extracts the indices from startFrame on, each
\* once and in increasing order, one at a time; at each resume it keeps the
\* frame of the index just extracted and reports that index's progress,
\* which the next report is not below; it returns after the report of 100
\* with endFrame - startFrame frames in index order; over an empty range it
\* reports nothing and returns the empty list at once
RunsInOrder(undisturbed(_)) ==
    \A b \in 1..Len(batches') :
        LET after == batches'[b]
            progress == BatchProgress(batches[b].i, after.startFrame,
                                      after.endFrame)
        IN  undisturbed(after) =>
              /\ b \notin BatchIds =>
                    /\ after.i = after.startFrame
                    /\ after.frames = <<>>
                    /\ after.startFrame >= after.endFrame =>
                          /\ after.pc = "returned"
                          /\ processorState' = processorState
                    /\ after.startFrame < after.endFrame =>
                          after.pc \in {"source", "resolved"}
              /\ b \in BatchIds =>
                    /\ after.i \in {batches[b].i, batches[b].i + 1}
                    /\ after.i # batches[b].i => BatchResumes(b)
                    /\ ~BatchResumes(b) => after.frames = batches[b].frames
              /\ (b \in BatchIds /\ BatchResumes(b)) =>
                    /\ Len(after.frames) = Len(batches[b].frames) + 1
                    /\ Len(after.frames) = batches[b].i - after.startFrame + 1
                    /\ InIndexOrder(after)
                    /\ processorState'.progress = progress
                    /\ ~FracLess(BatchProgress(after.i, after.startFrame,
                                               after.endFrame), progress)
                    /\ IF after.pc = "returned"
                       THEN /\ progress = Frac(ProgressEnd, 1)
                            /\ Len(after.frames)
                                  = after.endFrame - after.startFrame
                       ELSE /\ after.i = batches[b].i + 1
                            /\ after.i < after.endFrame
                            /\ after.pc \in {"source", "resolved"}

\* the batch was not cancelled and no extraction of it failed
NotCancelledNorFailed(batch) == ~batch.cancelSeen /\ batch.failed = {}

\* ... and its onProgress has thrown nothing
NothingThrown(batch) ==
    NotCancelledNorFailed(batch) /\ batch.thrown # CallbackFailed

C28_CleanBatchLeavesNoError ==
    [][\A b \in 1..Len(batches') :
          BatchReturns(b) /\ RanClean(batches'[b])
              => processorState'.error = Null]_vars

(***************************************************************************)
(* The converter's Completed state                                         *)
(***************************************************************************)
\* C27: whenever the session is Completed (isConverting false, progress 100,
\* a result present) its error is null, also when Completed was reached by a
\* result cache hit after a cancelled or failed run
C27_CompletedHasNoError ==
    (/\ ~converterState.isConverting
     /\ converterState.progress = ProgressEnd
     /\ converterState.convertedUri # Null)
        => converterState.error = Null

(***************************************************************************)
(* Two instances and the two caches                                        *)
(***************************************************************************)
\* the keys the first instance's runs have inserted into conversionCache
InsertedKeys ==
    {cacheKey(runs[r].videoUri, runs[r].options) :
        r \in {x \in RunIds : runs[x].inserted}}

\* a convertToSBS call of the first (second) instance misses the cache and
\* starts a run
ConvertMisses == IsConvertCall /\ ~runs'[Len(runs')].viaCache
PeerConvertMisses == peer.run = <<>> /\ peer'.run # <<>>

\* an extractFrame call of the first (second) instance misses the cache and
\* calls the frame source
ExtractMisses == Len(extracts') = Len(extracts) + 1
PeerExtractMisses == peer.extract = <<>> /\ peer'.extract # <<>>

ExtractHits ==
    /\ Len(extracts') = Len(extracts)
    /\ lastExtract' # lastExtract
PeerExtractHits ==
    /\ peer.extract = <<>>
    /\ peer'.extract = <<>>
    /\ peer'.lastExtract # peer.lastExtract

NoRunInFlight ==
    /\ \A r \in RunIds : ~InFlight(runs[r])
    /\ \A b \in BatchIds : ~BatchInFlight(batches[b])
    /\ extracts = <<>>

\* C30: under fair scheduling every convertToSBS call returns and every
\* processBatch call returns (each frame-source call answers or fails), and
\* whenever no run is in flight isConverting and isProcessing are false
C30_CallsReturn ==
    /\ \A r \in 1..MaxLiveCalls :
          (r \in RunIds) ~> (r \in RunIds /\ runs[r].pc = "returned")
    /\ \A b \in 1..MaxLiveCalls :
          (b \in BatchIds) ~> (b \in BatchIds /\ batches[b].pc = "returned")
    /\ [](NoRunInFlight => /\ ~converterState.isConverting
                           /\ ~processorState.isProcessing)

\* a conversion run has returned after a cancel and nothing is in flight
C30_Witness ==
    /\ NoRunInFlight
    /\ \E r \in RunIds :
          /\ runs[r].cancelSeen
          /\ runs[r].pc = "returned"
          /\ runs[r].thrown = ConversionCancelled
    /\ ~converterState.isConverting

====
